---- MODULE Spec2Model ----
(***************************************************************************)
(* Combined ECIL + EGPS tender crawler (src/app.py): the crawl of the two  *)
(* listing sites with their detail-window navigation, the persisted tender *)
(* history, the NEW / DATE CHANGED / EXISTING categorization and the run   *)
(* pipeline around them.                                                   *)
(*                                                                         *)
(* Texts read from a page are the stripped visible texts.  A tender number *)
(* is a tuple of characters, because the row filter looks inside it; every *)
(* other text is a string.                                                 *)
(***************************************************************************)
EXTENDS Integers, Sequences, FiniteSets, TLC

VARIABLES
    site,            \* the two listing sites as the browser shows them
    emailConfigured, \* sender_email and app_password and receiver_emails
    histFile,        \* combined_tender_history.json on disk
    histAtStart,     \* the file as it was when the run started
    run,             \* number of the current run
    pc,              \* position of the main script
    abortedAt,       \* stage whose exception reached the top-level except
    ecil_data, egps_data,
    max_docs,
    history,         \* result of load_tender_history() at line 715
    ecil_changes, egps_changes, changed_tenders,
    categorized,     \* [source][status] -> the six lists of lines 738-743
    all_tenders,
    rows, columns,
    reportWritten,
    updateCalls,     \* calls of update_tender_history in this run
    histOps,         \* the reads and writes of the history file in this run
    email,
    \* ---- one scrape_ecil / scrape_egps call ----
    cpc,             \* position inside the scrape function
    driver,          \* [source] -> "none" | "alive" | "quit"
    total_pages, page, row_index, data,
    cur,             \* the entry being built for the current row
    pending,         \* detail pages still to harvest for the current row
    extra,           \* open windows other than the listing window
    active,          \* "main" | "sec" | "none": the window the driver is on
    faults,          \* browser, site and disk faults the run can still meet
    faultKinds,      \* the kinds of those faults
    harvested,       \* what the last extract_* call met and returned
    outcome,         \* [source] -> how its scrape call ended
    lastPage,        \* [source] -> the listing page its page loop ended on
    saved,           \* the map handed to save_tender_history
    histText,        \* the characters json.dump has put in the history file
    loaded,          \* what load_tender_history returns from those characters
    jpc,             \* position of the save / load pair
    refetch          \* the last stale row reference and what the pager did

jsonVars  == <<saved, histText, loaded, jpc>>
envVars   == <<site, emailConfigured, histFile, histAtStart, run, jsonVars, refetch>>
runVars   == <<envVars, pc, abortedAt>>
dataVars  == <<ecil_data, egps_data>>
diffVars  == <<max_docs, history, ecil_changes, egps_changes, changed_tenders,
               categorized, all_tenders, rows, columns, reportWritten,
               updateCalls, histOps, email>>
crawlVars == <<cpc, driver, total_pages, page, row_index, data, cur, pending,
               outcome, lastPage>>
navVars   == <<extra, active, harvested>>
faultVars == <<faults, faultKinds>>
vars == <<runVars, dataVars, diffVars, crawlVars, navVars, faultVars>>

Sources == {"ECIL", "EGPS"}
Other(s) == IF s = "ECIL" THEN "EGPS" ELSE "ECIL"

----------------------------------------------------------------------------
(* Bounds of the model.                                                    *)
MaxRows     == 2   \* ECIL rows of the listing page (classification runs)
MaxEgpsRows == 1   \* EGPS rows of the listing page (classification runs)
DiffFaults  == 1   \* faults met in a classification run
MaxRuns     == 2   \* consecutive runs of the script (history runs)
HistFaults  == 1   \* faults met in each of the history runs
NavPages    == 2   \* listing pages of a site (navigation runs)
NavFaults   == 2   \* browser faults met in a navigation run
MaxStaleReads == 2 \* stale reads of one row that are told apart
MaxWindows  == 2   \* secondary windows the browser is let to hold

----------------------------------------------------------------------------
(* Sequence helpers.                                                       *)

RECURSIVE Flatten(_)
Flatten(ss) == IF ss = <<>> THEN <<>> ELSE Head(ss) \o Flatten(Tail(ss))

Range(s) == {s[i] : i \in DOMAIN s}

SetMax(S) == IF S = {} THEN 0 ELSE CHOOSE m \in S : \A x \in S : x <= m

SeqsUpTo(S, n) == UNION {[1..k -> S] : k \in 0..n}

Max2(a, b) == IF a >= b THEN a ELSE b

----------------------------------------------------------------------------
(* Texts.  str.isdigit, str.lower and the "in" test on tuples of           *)
(* characters.                                                             *)
DigitChars == {"0", "1", "2", "3", "4", "5", "6", "7", "8", "9"}

UpperChars == <<"A", "B", "C", "D", "E", "F", "G", "H", "I", "J", "K", "L", "M",
                "N", "O", "P", "Q", "R", "S", "T", "U", "V", "W", "X", "Y", "Z">>
LowerChars == <<"a", "b", "c", "d", "e", "f", "g", "h", "i", "j", "k", "l", "m",
                "n", "o", "p", "q", "r", "s", "t", "u", "v", "w", "x", "y", "z">>

LowerChar(c) ==
    IF \E i \in DOMAIN UpperChars : UpperChars[i] = c
    THEN LowerChars[CHOOSE i \in DOMAIN UpperChars : UpperChars[i] = c]
    ELSE c

StrLower(t) == [i \in DOMAIN t |-> LowerChar(t[i])]

\* str.isdigit(): non-empty and every character a digit
IsDigit(t) == t # <<>> /\ \A i \in DOMAIN t : t[i] \in DigitChars

\* sub in t
Contains(t, sub) ==
    \E i \in 0..(Len(t) - Len(sub)) : SubSeq(t, i + 1, i + Len(sub)) = sub

W_NIT     == <<"N", "I", "T">>
W_Section == <<"S", "e", "c", "t", "i", "o", "n">>
W_Tender  == <<"T", "e", "n", "d", "e", "r">>
W_no      == <<"n", "o", ".">>
W_number  == <<"n", "u", "m", "b", "e", "r">>
W_tenderno == <<"t", "e", "n", "d", "e", "r", " ", "n", "o", ".">>

\* The thresholds of the ECIL row filter (lines 432, 437, 447) and the column
\* count both pagers ask for (lines 422, 568).
ShortNumericLen == 2
MinTenderNoLen  == 5
MinDescLen      == 5
MinCols         == 6

\* lines 425-433: header, section and page-number rows
IsMarkerRow(tender_no) ==
    \/ tender_no = <<>>
    \/ Contains(tender_no, W_NIT)
    \/ Contains(tender_no, W_Section)
    \/ Contains(tender_no, W_Tender)
    \/ StrLower(tender_no) \in {W_no, W_number, W_tenderno}
    \/ (IsDigit(tender_no) /\ Len(tender_no) <= ShortNumericLen)

\* lines 422-449: the ECIL row is turned into an entry
EcilRowAccepted(r) ==
    /\ r.ncols >= MinCols
    /\ ~IsMarkerRow(r.tender_no)
    /\ ~(Len(r.tender_no) < MinTenderNoLen)
    /\ ~(r.description = "" \/ Len(r.description) < MinDescLen)

\* lines 567-569: the only test the EGPS pager makes
EgpsRowAccepted(r) == ~(r.ncols < MinCols)

RowAccepted(s, r) == IF s = "ECIL" THEN EcilRowAccepted(r) ELSE EgpsRowAccepted(r)

----------------------------------------------------------------------------
(* Tender history (lines 91-146).                                          *)
EmptyHistory == [ECIL |-> <<>>, EGPS |-> <<>>]

NoFile == [state |-> "absent", map |-> EmptyHistory]

\* the load without the except of lines 96-98 taking a failed read
LoadStoredMap(file, readOk) == file.map

\* load_tender_history: readOk is whether open() and json.load() go through
load_tender_history(file, readOk) ==
    IF file.state = "absent" THEN EmptyHistory
    ELSE IF file.state = "ok" /\ readOk THEN file.map
    ELSE EmptyHistory

\* save_tender_history: "ok", or open() fails (the file is left alone), or
\* json.dump fails after open(..., "w") has truncated the file
save_tender_history(file, h, written) ==
    CASE written = "ok"         -> [state |-> "ok", map |-> h]
      [] written = "open_fails" -> file
      [] OTHER                  -> [state |-> "corrupt", map |-> EmptyHistory]

\* dict.get(key, "")
Get(e, key) == IF key \in DOMAIN e THEN e[key] ELSE ""

\* the identifiers the file holds for a source
Recorded(file, s) ==
    IF file.state = "ok" /\ s \in DOMAIN file.map THEN DOMAIN file.map[s] ELSE {}

\* history[source] is evaluated for a source once a record of it is at hand
\* (lines 114, 747, 756, 131, 139): a KeyError when the key is missing
LookupsHold(h, ecil, egps) ==
    /\ ecil # <<>> => "ECIL" \in DOMAIN h
    /\ egps # <<>> => "EGPS" \in DOMAIN h

\* lines 114-123 for one entry
DateChanged(entry, h, source) ==
    /\ entry.tender_no \in DOMAIN h[source]
    /\ LET old_closing == Get(h[source][entry.tender_no], "closing_date")
       IN  old_closing # "" /\ entry.closing_date # "" /\ old_closing # entry.closing_date

\* the two dates of lines 119-120 taken for one another
ChangeSwapped(entry, h, source) ==
    [tender_no   |-> entry.tender_no,
     old_date    |-> entry.closing_date,
     new_date    |-> Get(h[source][entry.tender_no], "closing_date"),
     source      |-> source,
     description |-> entry.description]

Change(entry, h, source) ==
    [tender_no   |-> entry.tender_no,
     old_date    |-> Get(h[source][entry.tender_no], "closing_date"),
     new_date    |-> entry.closing_date,
     source      |-> source,
     description |-> entry.description]

RECURSIVE check_date_changes(_, _, _)
check_date_changes(current_data, h, source) ==
    IF current_data = <<>> THEN <<>>
    ELSE LET entry == Head(current_data)
             rest  == check_date_changes(Tail(current_data), h, source)
         IN  IF DateChanged(entry, h, source)
             THEN <<Change(entry, h, source)>> \o rest
             ELSE rest

\* lines 131-135 and 139-144: the entry written for a tender, now == the clock
EcilSnapshot(entry, now) ==
    [description |-> entry.description, closing_date |-> entry.closing_date,
     last_seen |-> now]
EgpsSnapshot(entry, now) ==
    [centre |-> entry.centre, description |-> entry.description,
     closing_date |-> entry.closing_date, last_seen |-> now]

Snapshot(s, entry, now) ==
    IF s = "ECIL" THEN EcilSnapshot(entry, now) ELSE EgpsSnapshot(entry, now)

\* d[k].update(v): the fields of the entry that was there are kept
PutFields(d, k, v) ==
    [x \in DOMAIN d \cup {k} |->
        IF x = k THEN (IF k \in DOMAIN d THEN v @@ d[k] ELSE v) ELSE d[x]]

\* d[k] = v on a dict
Put(d, k, v) == [x \in DOMAIN d \cup {k} |-> IF x = k THEN v ELSE d[x]]

RECURSIVE PutAll(_, _, _, _)
PutAll(d, s, entries, now) ==
    IF entries = <<>> THEN d
    ELSE PutAll(Put(d, Head(entries).tender_no, Snapshot(s, Head(entries), now)),
                s, Tail(entries), now)

\* lines 127-144: the map update_tender_history hands to save_tender_history
UpdatedHistory(h, ecil, egps, now) ==
    [s \in DOMAIN h |->
        IF s = "ECIL" THEN PutAll(h[s], s, ecil, now)
        ELSE IF s = "EGPS" THEN PutAll(h[s], s, egps, now)
        ELSE h[s]]

----------------------------------------------------------------------------
(* Categorization (lines 734-769).                                         *)
ChangedTenders(changes) == {<<changes[i].source, changes[i].tender_no>> : i \in DOMAIN changes}

\* the history read without regard to the source
StatusOfAnySource(entry, h, source, changed) ==
    IF \A src \in Sources : entry.tender_no \notin DOMAIN h[src] THEN "NEW"
    ELSE IF <<source, entry.tender_no>> \in changed THEN "DATE CHANGED"
    ELSE "EXISTING"

\* lines 747-752 / 756-761
StatusOf(entry, h, source, changed) ==
    IF entry.tender_no \notin DOMAIN h[source] THEN "NEW"
    ELSE IF <<source, entry.tender_no>> \in changed THEN "DATE CHANGED"
    ELSE "EXISTING"

Tagged(status, source, entry) == [status |-> status, source |-> source, entry |-> entry]

RECURSIVE WithStatus(_, _, _, _, _)
WithStatus(entries, h, source, changed, status) ==
    IF entries = <<>> THEN <<>>
    ELSE LET rest == WithStatus(Tail(entries), h, source, changed, status)
         IN  IF StatusOf(Head(entries), h, source, changed) = status
             THEN <<Tagged(status, source, Head(entries))>> \o rest
             ELSE rest

Statuses == <<"NEW", "DATE CHANGED", "EXISTING">>

\* the third branch taken as a test of its own: every record the history
\* holds goes to the EXISTING list, the changed ones too
CategorizeOverlapping(ecil, egps, h, changed) ==
    [s \in Sources |->
        [st \in Range(Statuses) |->
            WithStatus(IF s = "ECIL" THEN ecil ELSE egps, h, s,
                       IF st = "EXISTING" THEN {} ELSE changed, st)]]

\* lines 738-761: the six lists
Categorize(ecil, egps, h, changed) ==
    [s \in Sources |->
        [st \in Range(Statuses) |->
            WithStatus(IF s = "ECIL" THEN ecil ELSE egps, h, s, changed, st)]]

\* the six lists joined source by source
AllTendersBySource(cat) ==
    cat["ECIL"]["NEW"] \o cat["ECIL"]["DATE CHANGED"] \o cat["ECIL"]["EXISTING"] \o
    cat["EGPS"]["NEW"] \o cat["EGPS"]["DATE CHANGED"] \o cat["EGPS"]["EXISTING"]

\* lines 767-769
AllTenders(cat) ==
    cat["ECIL"]["NEW"] \o cat["EGPS"]["NEW"] \o
    cat["ECIL"]["DATE CHANGED"] \o cat["EGPS"]["DATE CHANGED"] \o
    cat["ECIL"]["EXISTING"] \o cat["EGPS"]["EXISTING"]

----------------------------------------------------------------------------
(* What a detail, view or corrigendum page shows, and the two extractors   *)
(* (lines 151-316).  A link of the page is                                 *)
(*   [text, href, data_url, onclick, cell, raises]                         *)
(* where cell is the first non-generic text among the first cells of the   *)
(* link's table row and raises says that reading the link throws.          *)
Base == "https://eproc.isro.gov.in"

U1 == "https://site/docs/a.pdf"
U2 == "https://site/docs/b.pdf"
V1 == "/viewDocument?id=1"

\* url.split('/')[-1].replace('.pdf', '').replace('.PDF', ''), on the URLs above
UrlFileName(url) ==
    CASE url = U1 -> "a"
      [] url = U2 -> "b"
      [] url = Base \o V1 -> "viewDocument?id=1"
      [] OTHER -> ""

\* '.pdf' in url.lower() or 'viewDocument' in url or 'downloadDocument' in url
IsDocumentUrl(url) == url \in {U1, U2, Base \o V1}

\* text.startswith("View") / text.startswith("Corrigendum"), on the texts the
\* pages below and the two prefixes can produce
StartsWithView(text)        == text = "View" \/ \E t \in {"Spec", "Drawing", "a", "b", "viewDocument?id=1", "Document"} : text = "View - " \o t
StartsWithCorrigendum(text) == text = "Corrigendum 1"

Link(text, href) ==
    [text |-> text, href |-> href, data_url |-> "", onclick |-> "", cell |-> "",
     raises |-> FALSE]

Page(links) ==
    [ready |-> TRUE, broken |-> FALSE, links |-> links,
     pubParent |-> "", pubSibling |-> "", pubBody |-> "", pubRaises |-> FALSE]

PageDocs    == Page(<<Link("Spec", U1), Link("Drawing", U1), Link("View", U2)>>)
PageTimeout == [Page(<<Link("Spec", U1)>>) EXCEPT !.ready = FALSE]
PageBroken  == [Page(<<Link("Spec", U1)>>) EXCEPT !.broken = TRUE]
PageFaulty  == [Page(<<[Link("Spec", U1) EXCEPT !.raises = TRUE], Link("Drawing", U2)>>)
                   EXCEPT !.pubRaises = TRUE, !.pubBody = "17-02-2026"]
PageDated   == [Page(<<[Link("", "") EXCEPT !.data_url = V1]>>)
                   EXCEPT !.pubSibling = "16-02-2026"]

DetailPages == {PageDocs, PageTimeout, PageBroken, PageFaulty, PageDated}

Urls(docs) == {docs[i][2] : i \in DOMAIN docs}

\* lines 166-177, one link
EcilAddLink(doc_links, l) ==
    IF l.raises THEN doc_links
    ELSE LET url  == l.href
             name == IF l.text = "" \/ l.text \in {"--NA--", "Download", "View"}
                     THEN UrlFileName(url) ELSE l.text
         \* "--NA--" not in name: no other text of these pages holds "--NA--"
         IN  IF url # "" /\ name # "--NA--" /\ url \notin Urls(doc_links)
             THEN Append(doc_links, <<name, url>>)
             ELSE doc_links

RECURSIVE EcilLinks(_, _)
EcilLinks(doc_links, ls) ==
    IF ls = <<>> THEN doc_links ELSE EcilLinks(EcilAddLink(doc_links, Head(ls)), Tail(ls))

\* extract_ecil_documents (lines 151-183)
extract_ecil_documents(p) ==
    IF ~p.ready THEN <<>>
    ELSE IF p.broken THEN <<>>
    ELSE EcilLinks(<<>>, p.links)

\* lines 272-278
EgpsUrl(l) ==
    IF l.href # "" THEN l.href
    ELSE IF l.data_url # "" THEN Base \o l.data_url
    ELSE IF l.onclick # "" THEN Base \o l.onclick
    ELSE ""

\* lines 285-297
EgpsName(l, url) ==
    IF l.text = "" \/ l.text \in {"View", "Download", "Open", "Click Here"}
    THEN LET t == IF l.cell # "" /\ l.cell \notin {"View", "Download", "Open"}
                  THEN l.cell ELSE l.text
         IN  IF t = "" \/ t \in {"View", "Download", "Open"}
             THEN (IF UrlFileName(url) # "" THEN UrlFileName(url) ELSE "Document")
             ELSE t
    ELSE l.text

\* lines 299-302
Labelled(text, page_type) ==
    IF page_type = "Corrigendum" /\ ~StartsWithCorrigendum(text)
    THEN "Corrigendum - " \o text
    ELSE IF page_type = "View" /\ ~StartsWithView(text)
    THEN "View - " \o text
    ELSE text

\* line 304 left out: the link is appended whether or not its URL is there
EgpsAddLinkAll(doc_links, l, page_type) ==
    IF l.raises THEN doc_links
    ELSE LET url == EgpsUrl(l)
         IN  IF url # "" /\ IsDocumentUrl(url)
             THEN Append(doc_links, <<Labelled(EgpsName(l, url), page_type), url>>)
             ELSE doc_links

\* lines 266-309, one link
EgpsAddLink(doc_links, l, page_type) ==
    IF l.raises THEN doc_links
    ELSE LET url == EgpsUrl(l)
         IN  IF url # "" /\ IsDocumentUrl(url) /\ url \notin Urls(doc_links)
             THEN Append(doc_links, <<Labelled(EgpsName(l, url), page_type), url>>)
             ELSE doc_links

RECURSIVE EgpsLinks(_, _, _)
EgpsLinks(doc_links, ls, page_type) ==
    IF ls = <<>> THEN doc_links
    ELSE EgpsLinks(EgpsAddLink(doc_links, Head(ls), page_type), Tail(ls), page_type)

\* lines 210-255: label's container, then the next sibling, then the body text
PublishedDate(p) ==
    IF p.pubRaises THEN ""
    ELSE IF p.pubParent # "" THEN p.pubParent
    ELSE IF p.pubSibling # "" THEN p.pubSibling
    ELSE p.pubBody

\* the return of lines 205-207 left out
ExtractEgpsPastTimeout(p, page_type) ==
    IF p.broken THEN <<<<>>, "">>
    ELSE <<EgpsLinks(<<>>, p.links, page_type), PublishedDate(p)>>

\* extract_egps_documents_and_published_date (lines 188-316): <<docs, date>>
extract_egps_documents_and_published_date(p, page_type) ==
    IF ~p.ready THEN <<<<>>, "">>
    ELSE IF p.broken THEN <<<<>>, "">>
    ELSE <<EgpsLinks(<<>>, p.links, page_type), PublishedDate(p)>>

\* the merge with the name of the last encounter taking the place of the first
RECURSIVE MergeDocsLastName(_, _)
MergeDocsLastName(doc_links, more) ==
    IF more = <<>> THEN doc_links
    ELSE MergeDocsLastName(
             IF Head(more)[2] \notin Urls(doc_links)
             THEN Append(doc_links, Head(more))
             ELSE [i \in DOMAIN doc_links |->
                      IF doc_links[i][2] = Head(more)[2] THEN Head(more) ELSE doc_links[i]],
             Tail(more))

\* lines 623-625 / 644-646: merge into the entry's list, first URL wins
RECURSIVE MergeDocs(_, _)
MergeDocs(doc_links, more) ==
    IF more = <<>> THEN doc_links
    ELSE MergeDocs(IF Head(more)[2] \notin Urls(doc_links)
                   THEN Append(doc_links, Head(more)) ELSE doc_links,
                   Tail(more))

----------------------------------------------------------------------------
(* Listing rows and sites.  A row is                                       *)
(*   [ncols, tender_no, centre, description, closing, published, opening,  *)
(*    link, actions]                                                       *)
(* link is the href of the tender-number cell (ECIL), actions the links of *)
(* the last cell (EGPS), each [text, href, data_url].  A site is           *)
(*   [pages, pageNumbers, ofCount]                                         *)
(* the listing pages that can be reached, the page numbers its pagination  *)
(* links show and the M of an "N of M" text (0: no such text).             *)
T1 == <<"E", "-", "1", "0", "1">>
T2 == <<"E", "-", "1", "0", "2">>
T07 == <<"0", "7">>

ViewPath == "/homeTenderView?id=1"
CorrPath == "/viewCorrigendum?id=1"
\* the document of the listing row is one the view and corrigendum pages link too
PdfUrl   == U2
DetailUrl == "https://etenders/detail/1"

Row(t, closing) ==
    [ncols |-> 6, tender_no |-> t, centre |-> "VSSC", description |-> "Valves",
     closing |-> closing, published |-> "01-01-2026", opening |-> "20-01-2026",
     link |-> "", actions |-> <<>>]

Action(text, href, data_url) == [text |-> text, href |-> href, data_url |-> data_url]

Site(pages, pageNumbers, ofCount) ==
    [pages |-> pages, pageNumbers |-> pageNumbers, ofCount |-> ofCount]

\* lines 588-601
RECURSIVE ScanActions(_, _)
ScanActions(actions, acc) ==
    IF actions = <<>> THEN acc
    ELSE LET l  == Head(actions)
             a1 == IF l.text = "Tender Document" /\ l.href # ""
                   THEN [acc EXCEPT !.tender_pdf = l.href] ELSE acc
             a2 == IF l.data_url = ViewPath
                   THEN [a1 EXCEPT !.view_link = Base \o l.data_url] ELSE a1
             a3 == IF l.data_url = CorrPath \/ l.text = "Corrigendum"
                   THEN [a2 EXCEPT !.corrigendum_link =
                            IF l.data_url # "" THEN Base \o l.data_url ELSE l.href]
                   ELSE a2
         IN  ScanActions(Tail(actions), a3)

ActionLinks(r) ==
    ScanActions(r.actions, [tender_pdf |-> "", view_link |-> "", corrigendum_link |-> ""])

\* lines 481-490: the entry of an ECIL row, before its documents
EcilEntry(r) ==
    [tender_no |-> r.tender_no, centre |-> "-----", description |-> r.description,
     closing_date |-> r.closing, published_date |-> r.published,
     opening_date |-> "-----", link |-> r.link, doc_links |-> <<>>]

\* lines 571-604 and 659-668: the entry of an EGPS row, before its harvests
EgpsEntry(r) ==
    LET a == ActionLinks(r)
    IN  [tender_no |-> r.tender_no, centre |-> r.centre, description |-> r.description,
         closing_date |-> r.closing, published_date |-> "",
         opening_date |-> r.opening, link |-> a.view_link,
         doc_links |-> IF a.tender_pdf # ""
                       THEN <<<<"Tender Document", a.tender_pdf>>>> ELSE <<>>]

Entry(s, r) == IF s = "ECIL" THEN EcilEntry(r) ELSE EgpsEntry(r)

Harvest(kind, url) == [kind |-> kind, url |-> url]

\* lines 460 / 610 / 634: the pages to open for a row, in order
Harvests(s, r) ==
    IF s = "ECIL"
    THEN (IF r.link # "" THEN <<Harvest("Detail", r.link)>> ELSE <<>>)
    ELSE LET a == ActionLinks(r)
         IN  (IF a.view_link # "" THEN <<Harvest("View", a.view_link)>> ELSE <<>>) \o
             (IF a.corrigendum_link # ""
              THEN <<Harvest("Corrigendum", a.corrigendum_link)>> ELSE <<>>)

\* lines 359-391 (ECIL) and 554-556 (EGPS)
DetectPages(s, st) ==
    IF s = "ECIL"
    THEN LET nums == {n \in st.pageNumbers : 1 <= n /\ n <= 99}
             t1   == IF nums # {} THEN SetMax(nums) ELSE 1
         IN  IF t1 = 1 /\ st.ofCount # 0 THEN st.ofCount ELSE t1
    ELSE IF st.pageNumbers # {} THEN SetMax(st.pageNumbers) ELSE 1

\* the rows find_elements returns on the page the listing window shows
RowsOf(st, p) == IF p \in DOMAIN st.pages THEN st.pages[p] ELSE <<>>

RECURSIVE AcceptedEntries(_, _)
AcceptedEntries(s, rs) ==
    IF rs = <<>> THEN <<>>
    ELSE (IF RowAccepted(s, Head(rs)) THEN <<Entry(s, Head(rs))>> ELSE <<>>)
         \o AcceptedEntries(s, Tail(rs))

TenderNos(entries) == [i \in DOMAIN entries |-> entries[i].tender_no]

----------------------------------------------------------------------------
(* Report rows (lines 773-826).                                            *)
BaseColumns == <<"Status", "Source", "Tender Number", "Published Date",
                 "Bid Opening Date", "Bid Closing Date", "Centre/Organization",
                 "Description", "Tender Link">>

\* the cells of the record's own documents, without the placeholders
DocCellsOwn(docs, n) ==
    [k \in 1..(2 * Len(docs)) |-> docs[(k + 1) \div 2][IF k % 2 = 1 THEN 1 ELSE 2]]

\* lines 802-808
DocCells(docs, n) ==
    [k \in 1..(2 * n) |->
        LET i == (k + 1) \div 2
        IN  IF i <= Len(docs) THEN docs[i][IF k % 2 = 1 THEN 1 ELSE 2] ELSE ""]

\* lines 790-810
ReportRow(t, n) ==
    <<t.status, t.source, t.entry.tender_no, t.entry.published_date,
      t.entry.opening_date, t.entry.closing_date, t.entry.centre,
      t.entry.description, t.entry.link>> \o DocCells(t.entry.doc_links, n)

\* lines 812-826; the name and link columns of document i
DocColumns(n) ==
    [k \in 1..(2 * n) |-> <<IF k % 2 = 1 THEN "Name" ELSE "Link", (k + 1) \div 2>>]

\* lines 707-709
MaxDocs(entries) == SetMax({Len(entries[i].doc_links) : i \in DOMAIN entries})

----------------------------------------------------------------------------
(* The history file as text: json.dump(history, f, indent=2) of line 104   *)
(* and json.load(f) of line 95.  Here a string is a tuple of characters    *)
(* and a value is [t |-> "str", v |-> characters] or [t |-> "obj", v |->   *)
(* function from key strings to values].                                   *)
JsonStrLen == 2   \* longest tender identifier and description written

QUOTE     == "QUOTE"
BACKSLASH == "BACKSLASH"
NEWLINE   == "NEWLINE"
EACUTE    == "U+00E9"
JsonChars == {"u", QUOTE, BACKSLASH, EACUTE}

JStr(cs) == [t |-> "str", v |-> cs]
JObj(f)  == [t |-> "obj", v |-> f]

\* a character written as it is, whatever it is
EscCharPlain(c) == <<c>>

\* json's escapes (ensure_ascii is left at True)
EscChar(c) ==
    CASE c = QUOTE     -> <<BACKSLASH, QUOTE>>
      [] c = BACKSLASH -> <<BACKSLASH, BACKSLASH>>
      [] c = NEWLINE   -> <<BACKSLASH, "n">>
      [] c = EACUTE    -> <<BACKSLASH, "u", "0", "0", "e", "9">>
      [] OTHER         -> <<c>>

DumpString(cs) == <<QUOTE>> \o Flatten([i \in DOMAIN cs |-> EscChar(cs[i])]) \o <<QUOTE>>

Spaces(n) == [i \in 1..n |-> " "]

RECURSIVE DumpValue(_, _)
RECURSIVE DumpMembers(_, _, _)
\* the members of an object, each on a line of its own, indented by 2 * d
DumpMembers(f, keys, d) ==
    LET k    == CHOOSE x \in keys : TRUE
        rest == keys \ {k}
    IN  <<NEWLINE>> \o Spaces(2 * d) \o DumpString(k) \o <<":", " ">>
        \o DumpValue(f[k], d)
        \o (IF rest = {} THEN <<>> ELSE <<",">> \o DumpMembers(f, rest, d))

DumpValue(x, d) ==
    IF x.t = "str" THEN DumpString(x.v)
    ELSE IF DOMAIN x.v = {} THEN <<"{", "}">>
    ELSE <<"{">> \o DumpMembers(x.v, DOMAIN x.v, d + 1)
         \o <<NEWLINE>> \o Spaces(2 * d) \o <<"}">>

json_dump(h) == DumpValue(h, 0)

At(text, i) == IF i \in DOMAIN text THEN text[i] ELSE "EOF"

RECURSIVE SkipWs(_, _)
SkipWs(text, i) == IF At(text, i) \in {" ", NEWLINE} THEN SkipWs(text, i + 1) ELSE i

ParseFails == [ok |-> FALSE, val |-> JStr(<<>>), next |-> 0]
Parsed(val, next) == [ok |-> TRUE, val |-> val, next |-> next]

\* the characters of a string up to its closing quote
RECURSIVE ParseChars(_, _, _)
ParseChars(text, i, acc) ==
    LET c == At(text, i)
        e == At(text, i + 1)
    IN  IF c = "EOF" \/ c = NEWLINE THEN ParseFails
        ELSE IF c = QUOTE THEN Parsed(JStr(acc), i + 1)
        ELSE IF c # BACKSLASH THEN ParseChars(text, i + 1, Append(acc, c))
        ELSE IF e = QUOTE THEN ParseChars(text, i + 2, Append(acc, QUOTE))
        ELSE IF e = BACKSLASH THEN ParseChars(text, i + 2, Append(acc, BACKSLASH))
        ELSE IF e = "n" THEN ParseChars(text, i + 2, Append(acc, NEWLINE))
        ELSE IF e = "u" /\ i + 5 <= Len(text)
                /\ SubSeq(text, i + 2, i + 5) = <<"0", "0", "e", "9">>
        THEN ParseChars(text, i + 6, Append(acc, EACUTE))
        ELSE ParseFails

RECURSIVE ParseValue(_, _)
RECURSIVE ParseMembers(_, _, _)
\* key: value pairs up to the closing brace; a key met again takes the place
\* of the one before
ParseMembers(text, i, acc) ==
    LET j   == SkipWs(text, i)
        key == IF At(text, j) = QUOTE THEN ParseChars(text, j + 1, <<>>) ELSE ParseFails
        c   == SkipWs(text, key.next)
        v   == IF key.ok /\ At(text, c) = ":" THEN ParseValue(text, c + 1) ELSE ParseFails
        n   == SkipWs(text, v.next)
        got == (key.val.v :> v.val) @@ acc
    IN  IF ~v.ok THEN ParseFails
        ELSE IF At(text, n) = "," THEN ParseMembers(text, n + 1, got)
        ELSE IF At(text, n) = "}" THEN Parsed(JObj(got), n + 1)
        ELSE ParseFails

ParseValue(text, i) ==
    LET j == SkipWs(text, i)
        k == SkipWs(text, j + 1)
    IN  IF At(text, j) = QUOTE THEN ParseChars(text, j + 1, <<>>)
        ELSE IF At(text, j) # "{" THEN ParseFails
        ELSE IF At(text, k) = "}" THEN Parsed(JObj(<<>>), k + 1)
        ELSE ParseMembers(text, k, <<>>)

\* json.load: the value of the whole text, or an exception
json_load(text) ==
    LET r == ParseValue(text, 1)
    IN  IF r.ok /\ SkipWs(text, r.next) = Len(text) + 1 THEN r ELSE ParseFails

K_ECIL == <<"E", "C", "I", "L">>
K_EGPS == <<"E", "G", "P", "S">>
K_description  == <<"d", "e", "s", "c", "r", "i", "p", "t", "i", "o", "n">>
K_closing_date == <<"c", "l", "o", "s", "i", "n", "g", "_", "d", "a", "t", "e">>
K_last_seen    == <<"l", "a", "s", "t", "_", "s", "e", "e", "n">>
K_centre       == <<"c", "e", "n", "t", "r", "e">>

\* {"ECIL": {}, "EGPS": {}}
JsonSkeleton == JObj(K_ECIL :> JObj(<<>>) @@ K_EGPS :> JObj(<<>>))

\* no save / load pair is under way
JsonIdle == saved = JsonSkeleton /\ histText = <<>> /\ loaded = JsonSkeleton /\ jpc = "idle"

----------------------------------------------------------------------------
(* State after the script's constants are set, before scrape_ecil().       *)
NoEntry ==
    [tender_no |-> <<>>, centre |-> "", description |-> "", closing_date |-> "",
     published_date |-> "", opening_date |-> "", link |-> "", doc_links |-> <<>>]

NoHarvest == [kind |-> "none", page |-> Page(<<>>), docs |-> <<>>, pub |-> ""]

NoLists == [s \in Sources |-> [st \in Range(Statuses) |-> <<>>]]

\* no row reference has gone stale
NoRefetch == [src |-> "", page |-> 0, row |-> 0, reads |-> 0, rows_id |-> 0]

RunStart ==
    /\ pc = "scrape_ecil" /\ abortedAt = ""
    /\ ecil_data = <<>> /\ egps_data = <<>>
    /\ max_docs = 0 /\ history = EmptyHistory
    /\ ecil_changes = <<>> /\ egps_changes = <<>> /\ changed_tenders = {}
    /\ categorized = NoLists /\ all_tenders = <<>>
    /\ rows = <<>> /\ columns = <<>>
    /\ reportWritten = FALSE /\ updateCalls = 0 /\ email = "none"
    /\ histOps = <<>>
    /\ refetch = NoRefetch
    /\ cpc = "idle" /\ driver = [s \in Sources |-> "none"]
    /\ total_pages = 0 /\ page = 0 /\ row_index = 0 /\ data = <<>>
    /\ cur = NoEntry /\ pending = <<>>
    /\ extra = 0 /\ active = "none"
    /\ faultKinds = {}
    /\ harvested = NoHarvest
    /\ outcome = [s \in Sources |-> "pending"]
    /\ lastPage = [s \in Sources |-> 0]

----------------------------------------------------------------------------
(* Faults of the browser, the sites and the disk.                          *)
Fault(kind) ==
    /\ faults > 0
    /\ faults' = faults - 1
    /\ faultKinds' = faultKinds \cup {kind}

NoFault == UNCHANGED faultVars

----------------------------------------------------------------------------
(* scrape_ecil (lines 321-525) and scrape_egps (lines 530-693).            *)
Stage(s) == IF s = "ECIL" THEN "scrape_ecil" ELSE "scrape_egps"

CurRows(s) == RowsOf(site[s], page)

\* the rows collected so far dropped
ReturnedNothing(d) == <<>>

\* what the function hands back when the page loop is over (lines 511-512,
\* 679-680), also after the break of lines 507-509 / 675-677
ReturnedData(d) == d

\* the return without the finally: the session is left as it is
ReturnWithoutQuit(s, result, how, session) ==
    /\ ecil_data' = IF s = "ECIL" THEN result ELSE ecil_data
    /\ egps_data' = IF s = "EGPS" THEN result ELSE egps_data
    /\ outcome' = [outcome EXCEPT ![s] = how]
    /\ lastPage' = [lastPage EXCEPT ![s] = page]
    /\ pc' = IF s = "ECIL" THEN "scrape_egps" ELSE "combine"
    /\ cpc' = "idle" /\ extra' = 0 /\ active' = "none"
    /\ total_pages' = 0 /\ page' = 0 /\ row_index' = 0 /\ data' = <<>>
    /\ cur' = NoEntry /\ pending' = <<>> /\ harvested' = NoHarvest
    /\ UNCHANGED <<envVars, abortedAt, diffVars, driver>>

\* return plus the finally of lines 520-525 / 688-693
\* how: "returned" (lines 512 / 680), "early" (line 352), "failed" (lines 518 / 686)
Return(s, result, how, session) ==
    /\ ecil_data' = IF s = "ECIL" THEN result ELSE ecil_data
    /\ egps_data' = IF s = "EGPS" THEN result ELSE egps_data
    /\ driver' = [driver EXCEPT ![s] = session]
    /\ outcome' = [outcome EXCEPT ![s] = how]
    /\ lastPage' = [lastPage EXCEPT ![s] = page]
    /\ pc' = IF s = "ECIL" THEN "scrape_egps" ELSE "combine"
    /\ cpc' = "idle" /\ extra' = 0 /\ active' = "none"
    /\ total_pages' = 0 /\ page' = 0 /\ row_index' = 0 /\ data' = <<>>
    /\ cur' = NoEntry /\ pending' = <<>> /\ harvested' = NoHarvest
    /\ UNCHANGED <<envVars, abortedAt, diffVars>>


\* lines 332-393 / 541-558: the session is opened, the listing loaded, the
\* page count read
ScrapeStart(s) ==
    /\ pc = Stage(s) /\ cpc = "idle"
    /\ driver' = [driver EXCEPT ![s] = "alive"]
    /\ total_pages' = DetectPages(s, site[s])
    /\ page' = 1 /\ row_index' = 1 /\ data' = <<>>
    /\ cpc' = "rows" /\ extra' = 0 /\ active' = "main"
    /\ NoFault
    /\ UNCHANGED <<runVars, dataVars, diffVars, cur, pending, outcome, lastPage, harvested>>

\* lines 342-352: the "Active Public NIT" button cannot be clicked
EcilNitButtonFails ==
    /\ pc = "scrape_ecil" /\ cpc = "idle"
    /\ Fault("nit_button")
    /\ Return("ECIL", <<>>, "early", "quit")

\* the same exception with no try around the crawl: it reaches lines 1041-1044
ScrapeRaisesUncaught(s) ==
    /\ pc = Stage(s) /\ cpc \in {"idle", "rows"}
    /\ Fault("crawl_raises")
    /\ pc' = "aborted" /\ abortedAt' = Stage(s)
    /\ UNCHANGED <<envVars, dataVars, diffVars, crawlVars, navVars>>

\* an exception no inner handler takes (webdriver.Chrome, driver.get, reading
\* the rows or a cell) reaches lines 514-518 / 682-686
ScrapeRaises(s) ==
    /\ pc = Stage(s) /\ cpc \in {"idle", "rows"}
    /\ Fault("crawl_raises")
    /\ Return(s, <<>>, "failed", IF cpc = "idle" THEN "none" ELSE "quit")

\* the row is read while the driver is not on the listing window (lines
\* 410-411 / 567).  With no window at all, and in scrape_egps, the exception
\* reaches the outer except.  In scrape_ecil the read of an element of another
\* window either raises StaleElementReferenceException, and lines 412-418
\* take the rows of the window the driver is on, which has no row at
\* row_index, or raises something else that reaches the outer except.
RowReadOffListing(s) ==
    /\ pc = Stage(s) /\ cpc = "rows"
    /\ row_index \in DOMAIN CurRows(s)
    /\ active # "main"
    /\ NoFault
    /\ \/ Return(s, <<>>, "failed", "quit")
       \/ /\ s = "ECIL" /\ active = "sec"
          /\ row_index' = Len(CurRows(s)) + 1
          /\ UNCHANGED <<runVars, dataVars, diffVars, cpc, driver, total_pages,
                         page, data, cur, pending, outcome, lastPage, navVars>>

\* one pass of the row loop for a row that opens no window
\* (lines 408-457, 477-492 / 566-607, 655-668)
ReadRow(s) ==
    /\ pc = Stage(s) /\ cpc = "rows"
    /\ row_index \in DOMAIN CurRows(s)
    /\ active = "main"
    /\ LET r == CurRows(s)[row_index]
       IN  IF ~RowAccepted(s, r)
           THEN /\ row_index' = row_index + 1
                /\ UNCHANGED <<data, cur, pending, cpc>>
           ELSE IF Harvests(s, r) = <<>>
           THEN /\ data' = Append(data, Entry(s, r))
                /\ row_index' = row_index + 1
                /\ UNCHANGED <<cur, pending, cpc>>
           ELSE /\ cur' = Entry(s, r)
                /\ pending' = Harvests(s, r)
                /\ cpc' = "open"
                /\ UNCHANGED <<data, row_index>>
    /\ NoFault
    /\ UNCHANGED <<runVars, dataVars, diffVars, driver, total_pages, page,
                   outcome, lastPage, navVars>>

\* the re-fetch of lines 412-418 as the pager sees it: a new row set, and one
\* more stale read of the row at row_index (counted up to MaxStaleReads)
Refetched(s) ==
    [src |-> s, page |-> page, row |-> row_index,
     reads |-> IF <<refetch.src, refetch.page, refetch.row>> = <<s, page, row_index>>
               THEN (IF refetch.reads < MaxStaleReads THEN refetch.reads + 1
                     ELSE MaxStaleReads)
               ELSE 1,
     rows_id |-> 1 - refetch.rows_id]

StaleKinds == {"stale_row", "stale_cell", "stale_link"}

\* StaleElementReferenceException while the row at row_index is processed:
\*   "stale_row"   rows[row_index] / row.find_elements (lines 410-411 / 567)
\*   "stale_cell"  the .text of a cell (lines 423-445 / 571-575)
\*   "stale_link"  the link of the row (lines 451-452 / 581-586)
\* scrape_ecil catches it at lines 412-418 (re-fetch, continue) and at lines
\* 453-454 (the row goes on without its link); everywhere else, and
\* everywhere in scrape_egps, it reaches the outer except (514-518 / 682-686).
RowStale(s) ==
    /\ pc = Stage(s) /\ cpc = "rows"
    /\ row_index \in DOMAIN CurRows(s)
    /\ active = "main"
    /\ faults' = faults
    /\ LET r == CurRows(s)[row_index]
       IN  \/ /\ s = "ECIL"
              /\ faultKinds' = faultKinds \cup {"stale_row"}
              /\ refetch' = Refetched(s)
              /\ UNCHANGED <<site, emailConfigured, histFile, histAtStart, run,
                             jsonVars, pc, abortedAt, dataVars, diffVars,
                             crawlVars, navVars>>
           \/ /\ s = "ECIL" /\ RowAccepted(s, r)
              /\ faultKinds' = faultKinds \cup {"stale_link"}
              /\ data' = Append(data, [EcilEntry(r) EXCEPT !.link = ""])
              /\ row_index' = row_index + 1
              /\ UNCHANGED <<runVars, dataVars, diffVars, cpc, driver, total_pages,
                             page, cur, pending, outcome, lastPage, navVars>>
           \/ /\ s = "ECIL" /\ r.ncols >= MinCols
              /\ faultKinds' = faultKinds \cup {"stale_cell"}
              /\ Return(s, <<>>, "failed", "quit")
           \/ /\ s = "EGPS"
              /\ \E k \in StaleKinds :
                    /\ k # "stale_row" => r.ncols >= MinCols
                    /\ faultKinds' = faultKinds \cup {k}
              /\ Return(s, <<>>, "failed", "quit")

\* find_element for the link whose text is page+1 (lines 498-500 / 672)
NextLinkFound(s) == active = "main" /\ (page + 1) \in DOMAIN site[s].pages

\* lines 496-506 / 670-674
NextPage(s) ==
    /\ pc = Stage(s) /\ cpc = "rows"
    /\ row_index \notin DOMAIN CurRows(s)
    /\ page < total_pages /\ NextLinkFound(s)
    /\ page' = page + 1 /\ row_index' = 1
    /\ NoFault
    /\ UNCHANGED <<runVars, dataVars, diffVars, cpc, driver, total_pages, data,
                   cur, pending, outcome, lastPage, navVars>>

\* the page loop ends: last page done, or the break of lines 507-509 / 675-677
ScrapeReturn(s) ==
    /\ pc = Stage(s) /\ cpc = "rows"
    /\ row_index \notin DOMAIN CurRows(s)
    /\ ~(page < total_pages /\ NextLinkFound(s))
    /\ NoFault
    /\ Return(s, ReturnedData(data), "returned", "quit")

----------------------------------------------------------------------------
(* The detail window of a row (lines 459-475, 607-653) and                 *)
(* safe_close_extra_windows (lines 34-50).                                 *)

\* the harvest of pending[1] is over: the next link of the row, or the append
AfterLink ==
    IF Len(pending) > 1
    THEN /\ pending' = Tail(pending)
         /\ cpc' = "open"
         /\ UNCHANGED <<cur, data, row_index>>
    ELSE /\ data' = Append(data, cur)
         /\ row_index' = row_index + 1
         /\ cpc' = "rows"
         /\ cur' = NoEntry /\ pending' = <<>>

crawlFrame == <<runVars, dataVars, diffVars, driver, total_pages, page, outcome,
                lastPage>>

\* window.open and the test len(window_handles) > 1 (lines 464-466, 613-616)
HarvestOpen(s) ==
    /\ pc = Stage(s) /\ cpc = "open"
    /\ \/ /\ active # "none" /\ extra < MaxWindows
          /\ NoFault
          /\ extra' = extra + 1 /\ cpc' = "extract"
          /\ UNCHANGED <<active, cur, pending, data, row_index>>
       \/ /\ active = "none"
          /\ NoFault
          /\ cpc' = "cleanup"
          /\ UNCHANGED <<extra, active, cur, pending, data, row_index>>
       \/ /\ active # "none"
          /\ Fault("open_raises")
          /\ cpc' = "cleanup"
          /\ UNCHANGED <<extra, active, cur, pending, data, row_index>>
       \/ /\ active # "none" /\ extra = 0
          /\ Fault("not_opened")
          /\ AfterLink
          /\ UNCHANGED <<extra, active>>
       \/ /\ active # "none" /\ extra > 0
          /\ Fault("not_opened")
          /\ cpc' = "extract"
          /\ UNCHANGED <<extra, active, cur, pending, data, row_index>>
    /\ UNCHANGED <<crawlFrame, harvested>>

\* what the extractor returns on page p, and the entry after the merge
\* (lines 468, 618-625, 642-646)
Extracted(kind, p) ==
    IF kind = "Detail" THEN <<extract_ecil_documents(p), "">>
    ELSE extract_egps_documents_and_published_date(p, kind)

Merged(entry, kind, got) ==
    IF kind = "Detail" THEN [entry EXCEPT !.doc_links = got[1]]
    ELSE IF kind = "View"
    THEN [entry EXCEPT !.published_date = IF got[2] # "" THEN got[2] ELSE @,
                       !.doc_links = MergeDocs(@, got[1])]
    ELSE [entry EXCEPT !.doc_links = MergeDocs(@, got[1])]

\* switch to the newest window and run the extractor (lines 467-468, 617-625)
HarvestExtract(s) ==
    /\ pc = Stage(s) /\ cpc = "extract"
    /\ \/ /\ NoFault
          /\ active' = "sec"
          /\ \E p \in DetailPages :
                LET kind == pending[1].kind
                    got  == Extracted(kind, p)
                IN  /\ cur' = Merged(cur, kind, got)
                    /\ harvested' = [kind |-> kind, page |-> p,
                                     docs |-> got[1], pub |-> got[2]]
          /\ cpc' = "close"
       \/ /\ Fault("switch_raises")
          /\ cpc' = "cleanup"
          /\ UNCHANGED <<active, cur, harvested>>
    /\ UNCHANGED <<crawlFrame, extra, pending, data, row_index>>

\* driver.close() and the switch back (lines 469-470, 627-628)
HarvestClose(s) ==
    /\ pc = Stage(s) /\ cpc = "close"
    /\ \/ /\ NoFault
          /\ extra' = extra - 1 /\ active' = "main"
          /\ AfterLink
       \/ /\ Fault("close_raises")
          /\ \/ extra' = extra /\ active' = "sec"
             \/ extra' = extra - 1 /\ active' = "none"
          /\ cpc' = "cleanup"
          /\ UNCHANGED <<cur, pending, data, row_index>>
       \/ /\ Fault("switch_back_raises")
          /\ extra' = extra - 1 /\ active' = "none"
          /\ cpc' = "cleanup"
          /\ UNCHANGED <<cur, pending, data, row_index>>
    /\ UNCHANGED <<crawlFrame, harvested>>

\* the windows safe_close_extra_windows can leave the driver on when both
\* switches to main_window fail, with left windows still open
LeftOn(left) ==
    (IF left > 0 THEN {"sec"} ELSE {})
    \cup (IF left < extra \/ active = "none" THEN {"none"} ELSE {})
    \cup (IF left = extra /\ active = "main" THEN {"main"} ELSE {})

\* safe_close_extra_windows (lines 34-50), called at lines 475, 632, 653
safe_close_extra_windows(s) ==
    /\ pc = Stage(s) /\ cpc = "cleanup"
    /\ \/ /\ NoFault
          /\ extra' = 0 /\ active' = "main"
       \/ /\ extra > 0
          /\ Fault("cleanup_close_fails")
          /\ extra' \in 1..extra /\ active' = "main"
       \/ /\ Fault("cleanup_switch_fails")
          /\ \E left \in 0..extra : extra' = left /\ active' \in LeftOn(left)
    /\ AfterLink
    /\ UNCHANGED <<crawlFrame, harvested>>

----------------------------------------------------------------------------
(* Main execution (lines 699-1044).                                        *)
mainFrame == <<envVars, dataVars, crawlVars, navVars>>

\* the top-level except of lines 1041-1044
Abort(stage) == pc' = "aborted" /\ abortedAt' = stage

\* lines 707-713
Combine ==
    /\ pc = "combine"
    /\ max_docs' = Max2(MaxDocs(ecil_data), MaxDocs(egps_data))
    /\ pc' = "load"
    /\ NoFault
    /\ UNCHANGED <<mainFrame, abortedAt, history, ecil_changes, egps_changes,
                   changed_tenders, categorized, all_tenders, rows, columns,
                   reportWritten, updateCalls, histOps, email>>

\* line 715
LoadHistory ==
    /\ pc = "load"
    /\ \/ /\ NoFault
          /\ history' = load_tender_history(histFile, TRUE)
       \/ /\ histFile.state = "ok"
          /\ Fault("read_fails")
          /\ history' = load_tender_history(histFile, FALSE)
    /\ histOps' = Append(histOps, "read")
    /\ pc' = "changes"
    /\ UNCHANGED <<mainFrame, abortedAt, max_docs, ecil_changes, egps_changes,
                   changed_tenders, categorized, all_tenders, rows, columns,
                   reportWritten, updateCalls, email>>

\* lines 717-736
CheckDateChanges ==
    /\ pc = "changes"
    /\ IF LookupsHold(history, ecil_data, egps_data)
       THEN /\ ecil_changes' = check_date_changes(ecil_data, history, "ECIL")
            /\ egps_changes' = check_date_changes(egps_data, history, "EGPS")
            /\ changed_tenders' = ChangedTenders(ecil_changes' \o egps_changes')
            /\ pc' = "categorize"
            /\ UNCHANGED abortedAt
       ELSE /\ Abort("changes")
            /\ UNCHANGED <<ecil_changes, egps_changes, changed_tenders>>
    /\ NoFault
    /\ UNCHANGED <<mainFrame, max_docs, history, categorized, all_tenders, rows,
                   columns, reportWritten, updateCalls, histOps, email>>

\* update_tender_history called as soon as the lists are there
CategorizeThenUpdate ==
    /\ pc = "categorize"
    /\ categorized' = Categorize(ecil_data, egps_data, history, changed_tenders)
    /\ all_tenders' = AllTenders(categorized')
    /\ histFile' = [state |-> "ok",
                    map |-> UpdatedHistory(load_tender_history(histFile, TRUE),
                                           ecil_data, egps_data, run)]
    /\ updateCalls' = updateCalls + 1
    /\ histOps' = histOps \o <<"read", "write">>
    /\ pc' = "build"
    /\ NoFault
    /\ UNCHANGED <<site, emailConfigured, histAtStart, run, jsonVars, refetch, dataVars, crawlVars,
                   navVars, abortedAt, max_docs, history, ecil_changes,
                   egps_changes, changed_tenders, rows, columns, reportWritten,
                   email>>

\* lines 738-769
CategorizeTenders ==
    /\ pc = "categorize"
    /\ categorized' = Categorize(ecil_data, egps_data, history, changed_tenders)
    /\ all_tenders' = AllTenders(categorized')
    /\ pc' = "build"
    /\ NoFault
    /\ UNCHANGED <<mainFrame, abortedAt, max_docs, history, ecil_changes,
                   egps_changes, changed_tenders, rows, columns, reportWritten,
                   updateCalls, histOps, email>>

\* lines 773-826
BuildRows ==
    /\ pc = "build"
    /\ rows' = [i \in DOMAIN all_tenders |-> ReportRow(all_tenders[i], max_docs)]
    /\ columns' = BaseColumns \o DocColumns(max_docs)
    /\ pc' = "report"
    /\ NoFault
    /\ UNCHANGED <<mainFrame, abortedAt, max_docs, history, ecil_changes,
                   egps_changes, changed_tenders, categorized, all_tenders,
                   reportWritten, updateCalls, histOps, email>>

\* the report followed by the e-mail, line 952 left for later
WriteReportThenEmail ==
    /\ pc = "report"
    /\ reportWritten' = TRUE
    /\ pc' = "email"
    /\ NoFault
    /\ UNCHANGED <<mainFrame, abortedAt, max_docs, history, ecil_changes,
                   egps_changes, changed_tenders, categorized, all_tenders, rows,
                   columns, updateCalls, histOps, email>>

\* lines 828-950: the workbook is written, formatted and saved
WriteReport ==
    /\ pc = "report"
    /\ reportWritten' = TRUE
    /\ pc' = "update"
    /\ NoFault
    /\ UNCHANGED <<mainFrame, abortedAt, max_docs, history, ecil_changes,
                   egps_changes, changed_tenders, categorized, all_tenders, rows,
                   columns, updateCalls, histOps, email>>

\* an exception in lines 703-950 (the workbook cannot be written, ...)
StageRaises ==
    /\ pc \in {"combine", "changes", "categorize", "build", "report"}
    /\ Fault("stage_raises")
    /\ Abort(pc)
    /\ UNCHANGED <<mainFrame, diffVars>>

\* the file update_tender_history leaves (lines 126-146)
update_tender_history(file, ecil, egps, now, readOk, written) ==
    save_tender_history(file,
        UpdatedHistory(load_tender_history(file, readOk), ecil, egps, now),
        written)

\* line 952
UpdateHistory ==
    /\ pc = "update"
    /\ \E readOk \in BOOLEAN, written \in {"ok", "open_fails", "dump_fails"} :
          LET n == (IF readOk THEN 0 ELSE 1) + (IF written = "ok" THEN 0 ELSE 1)
          IN  /\ ~readOk => histFile.state = "ok"
              /\ n <= faults
              /\ faults' = faults - n
              /\ faultKinds' = faultKinds
                     \cup (IF readOk THEN {} ELSE {"read_fails"})
                     \cup (IF written = "ok" THEN {} ELSE {written})
              /\ IF LookupsHold(load_tender_history(histFile, readOk),
                                ecil_data, egps_data)
                 THEN /\ histFile' = update_tender_history(histFile, ecil_data,
                                             egps_data, run, readOk, written)
                      /\ histOps' = histOps \o <<"read", "write">>
                      /\ pc' = "email" /\ UNCHANGED abortedAt
                 ELSE /\ written = "ok"
                      /\ histFile' = histFile
                      /\ histOps' = Append(histOps, "read")
                      /\ Abort("update")
    /\ updateCalls' = updateCalls + 1
    /\ UNCHANGED <<site, emailConfigured, histAtStart, run, jsonVars, refetch, dataVars,
                   crawlVars, navVars, max_docs, history, ecil_changes,
                   egps_changes, changed_tenders, categorized, all_tenders, rows,
                   columns, reportWritten, email>>

\* lines 955-1039
SendEmail ==
    /\ pc = "email"
    /\ \/ /\ ~emailConfigured
          /\ NoFault
          /\ email' = "skipped" /\ pc' = "done" /\ UNCHANGED abortedAt
       \/ /\ emailConfigured
          /\ NoFault
          /\ email' = "sent" /\ pc' = "done" /\ UNCHANGED abortedAt
       \/ /\ emailConfigured
          /\ Fault("smtp_fails")
          /\ email' = "failed" /\ pc' = "done" /\ UNCHANGED abortedAt
       \/ /\ emailConfigured
          /\ Fault("attachment_fails")
          /\ email' = "none" /\ Abort("email")
    /\ UNCHANGED <<mainFrame, max_docs, history, ecil_changes, egps_changes,
                   changed_tenders, categorized, all_tenders, rows, columns,
                   reportWritten, updateCalls, histOps>>

\* the script is started again, on what the sites show then
NextRun(sites, budget) ==
    /\ pc \in {"done", "aborted"}
    /\ run < MaxRuns
    /\ run' = run + 1
    /\ site' \in sites
    /\ histAtStart' = histFile
    /\ faults' = budget
    /\ UNCHANGED <<emailConfigured, histFile, jsonVars>>
    /\ refetch' = NoRefetch
    /\ pc' = "scrape_ecil" /\ abortedAt' = ""
    /\ ecil_data' = <<>> /\ egps_data' = <<>>
    /\ max_docs' = 0 /\ history' = EmptyHistory
    /\ ecil_changes' = <<>> /\ egps_changes' = <<>> /\ changed_tenders' = {}
    /\ categorized' = NoLists /\ all_tenders' = <<>>
    /\ rows' = <<>> /\ columns' = <<>>
    /\ reportWritten' = FALSE /\ updateCalls' = 0 /\ email' = "none"
    /\ histOps' = <<>>
    /\ cpc' = "idle" /\ driver' = [s \in Sources |-> "none"]
    /\ total_pages' = 0 /\ page' = 0 /\ row_index' = 0 /\ data' = <<>>
    /\ cur' = NoEntry /\ pending' = <<>>
    /\ extra' = 0 /\ active' = "none"
    /\ faultKinds' = {}
    /\ harvested' = NoHarvest
    /\ outcome' = [s \in Sources |-> "pending"]
    /\ lastPage' = [s \in Sources |-> 0]

----------------------------------------------------------------------------
(* Classification runs: one run on one-page listings without detail links, *)
(* over every history file an earlier run can have left.                   *)
EcilDiffRows == {Row(T1, ""), Row(T1, "10-01-2026"), Row(T1, "15-01-2026"),
                 Row(T2, "10-01-2026")}
\* an EGPS row whose last cell links the tender document and nothing else
WithPdf(t, closing) ==
    [Row(t, closing) EXCEPT !.actions = <<Action("Tender Document", PdfUrl, "")>>]

EgpsDiffRows == {Row(T1, "10-01-2026"), WithPdf(T1, "15-01-2026")}

OnePage(rs) == Site(<<rs>>, {}, 0)

DiffSites ==
    {[ECIL |-> OnePage(e), EGPS |-> OnePage(g)] :
        e \in SeqsUpTo(EcilDiffRows, MaxRows), g \in SeqsUpTo(EgpsDiffRows, MaxEgpsRows)}

\* an entry a run before this one wrote
Seen(s, closing) == Snapshot(s, Entry(s, Row(T1, closing)), 0)

DiffFiles ==
    {NoFile} \cup
    {[state |-> "ok", map |-> [ECIL |-> e, EGPS |-> g]] :
        e \in {<<>>} \cup {[t \in {T1} |-> Seen("ECIL", c)] : c \in {"", "10-01-2026"}},
        g \in {<<>>, [t \in {T1} |-> Seen("EGPS", "10-01-2026")]}}

InitDiff ==
    /\ site \in DiffSites
    /\ emailConfigured = TRUE
    /\ histFile \in DiffFiles
    /\ histAtStart = histFile
    /\ run = 1
    /\ faults = DiffFaults
    /\ JsonIdle
    /\ RunStart

Pipeline ==
    \/ Combine \/ LoadHistory \/ CheckDateChanges \/ CategorizeTenders
    \/ BuildRows \/ WriteReport \/ StageRaises \/ UpdateHistory \/ SendEmail

Listing ==
    \/ \E s \in Sources : ScrapeStart(s) \/ ScrapeRaises(s) \/ ReadRow(s) \/ ScrapeReturn(s)
    \/ EcilNitButtonFails

Next == Listing \/ Pipeline

Spec == InitDiff /\ [][Next]_vars

----------------------------------------------------------------------------
(* History runs: the script is run MaxRuns times, from no history file, on *)
(* listings that change between the runs.                                  *)
HistSites ==
    {[ECIL |-> OnePage(e), EGPS |-> OnePage(g)] :
        e \in SeqsUpTo({Row(T1, "10-01-2026"), Row(T1, "15-01-2026"), Row(T2, "10-01-2026")}, 1),
        g \in SeqsUpTo({Row(T1, "10-01-2026")}, 1)}

InitHist ==
    /\ site \in HistSites
    /\ emailConfigured = TRUE
    /\ histFile = NoFile
    /\ histAtStart = histFile
    /\ run = 1
    /\ faults = HistFaults
    /\ JsonIdle
    /\ RunStart

NextHist == Next \/ NextRun(HistSites, HistFaults)

SpecHist == InitHist /\ [][NextHist]_vars

----------------------------------------------------------------------------
(* Navigation runs: the two scrape calls on listings of several pages      *)
(* whose rows link to detail, view and corrigendum pages.                  *)
Linked(t) == [Row(t, "10-01-2026") EXCEPT !.link = DetailUrl]

WithActions(t) ==
    [Row(t, "10-01-2026") EXCEPT !.actions =
        <<Action("Tender Document", PdfUrl, ""), Action("View", "", ViewPath),
          Action("Corrigendum", "", CorrPath)>>]

ShortRow == [Row(T2, "10-01-2026") EXCEPT !.ncols = 3]

EcilNavPages == {<<Linked(T1), Row(T2, "10-01-2026")>>, <<Row(T07, "10-01-2026")>>}
EgpsNavPages == {<<WithActions(T1), Row(T2, "10-01-2026")>>, <<ShortRow, Row(T07, "10-01-2026")>>}

EmptySite == Site(<<>>, {}, 0)

\* what the pagination shows: no page links and no "N of M" text, an "N of 2"
\* text alone, or page links up to one page more than can be reached
NavSites ==
    {[ECIL |-> Site(ps, d[1], d[2]), EGPS |-> EmptySite] :
        ps \in SeqsUpTo(EcilNavPages, NavPages),
        d \in {<<{}, 0>>, <<{}, 2>>, <<1..(NavPages + 1), 0>>}}
    \cup
    {[ECIL |-> EmptySite, EGPS |-> Site(ps, n, 0)] :
        ps \in SeqsUpTo(EgpsNavPages, NavPages - 1), n \in {{}, 1..NavPages}}

InitNav ==
    /\ site \in NavSites
    /\ emailConfigured = FALSE
    /\ histFile = NoFile
    /\ histAtStart = histFile
    /\ run = 1
    /\ faults = NavFaults
    /\ JsonIdle
    /\ RunStart

Windows ==
    \E s \in Sources :
        \/ NextPage(s) \/ RowReadOffListing(s)
        \/ HarvestOpen(s) \/ HarvestExtract(s) \/ HarvestClose(s)
        \/ safe_close_extra_windows(s)

NextNav == Listing \/ Windows

SpecNav == InitNav /\ [][NextNav]_vars

----------------------------------------------------------------------------
(* Navigation runs on listings whose row references can go stale, any      *)
(* number of times.  The script is sequential: it takes its next step      *)
(* whenever it has one.                                                    *)
Stale == \E s \in Sources : RowStale(s)

NextStale == NextNav \/ Stale

SpecStale == InitNav /\ [][NextStale]_vars /\ WF_vars(NextStale)

----------------------------------------------------------------------------
(* Runs over history files this version of the script did not write: an    *)
(* entry with a field more than lines 131-135 write, and a map with the    *)
(* key of one source only.  load_tender_history hands back what json.load  *)
(* reads (line 95), whatever it is.                                        *)
FileFaults == 1

LegacyEntry == Seen("ECIL", "10-01-2026") @@ [link |-> DetailUrl]

OtherFiles ==
    {[state |-> "ok", map |-> [ECIL |-> (T1 :> LegacyEntry), EGPS |-> <<>>]],
     [state |-> "ok", map |-> [ECIL |-> (T1 :> Seen("ECIL", "10-01-2026"))]]}

FileSites ==
    {[ECIL |-> OnePage(e), EGPS |-> OnePage(g)] :
        e \in SeqsUpTo({Row(T1, "15-01-2026")}, 1),
        g \in SeqsUpTo({Row(T1, "10-01-2026")}, 1)}

InitFiles ==
    /\ site \in FileSites
    /\ emailConfigured \in BOOLEAN
    /\ histFile \in OtherFiles
    /\ histAtStart = histFile
    /\ run = 1
    /\ faults = FileFaults
    /\ JsonIdle
    /\ RunStart

SpecFiles == InitFiles /\ [][Next]_vars

----------------------------------------------------------------------------
(* The script run again at once: the sites show in every run what they     *)
(* showed in the first, which started without a history file.              *)
SameFaults == 1

SameSites ==
    {[ECIL |-> OnePage(e), EGPS |-> OnePage(g)] :
        e \in {<<>>, <<Row(T1, "10-01-2026")>>,
               <<Row(T1, "10-01-2026"), Row(T2, "10-01-2026")>>,
               <<Row(T1, "10-01-2026"), Row(T1, "15-01-2026")>>},
        g \in SeqsUpTo({Row(T1, "10-01-2026")}, 1)}

InitSame ==
    /\ site \in SameSites
    /\ emailConfigured \in BOOLEAN
    /\ histFile = NoFile
    /\ histAtStart = histFile
    /\ run = 1
    /\ faults = SameFaults
    /\ JsonIdle
    /\ RunStart

NextSame == Next \/ NextRun({site}, SameFaults)

SpecSame == InitSame /\ [][NextSame]_vars

----------------------------------------------------------------------------
(* Save and load: save_tender_history(h) followed by load_tender_history() *)
(* on the characters of the file, for history maps of a bounded size.      *)
JsonFaults == 1   \* disk faults the save / load pair can meet

JsonStrings == UNION {[1..n -> JsonChars] : n \in 0..JsonStrLen}

JDate == <<"1", "0", "-", "0", "1", "-", "2", "0", "2", "6">>
JSeen == <<"2", "0", "2", "6", "-", "0", "1", "-", "1", "0", " ", "0", "9", ":", "0", "0">>

JsonEcilEntry(d) ==
    JObj(K_description :> JStr(d) @@ K_closing_date :> JStr(JDate)
         @@ K_last_seen :> JStr(JSeen))
JsonEgpsEntry ==
    JObj(K_centre :> JStr(<<"a">>) @@ K_description :> JStr(<<>>)
         @@ K_closing_date :> JStr(JDate) @@ K_last_seen :> JStr(JSeen))

JsonHistories ==
    {JObj(K_ECIL :> JObj(e) @@ K_EGPS :> JObj(g)) :
        e \in {<<>>} \cup {(k[1] :> JsonEcilEntry(k[2])) : k \in JsonStrings \X JsonStrings},
        g \in {<<>>, (<<"a">> :> JsonEgpsEntry) @@ (<<"u">> :> JsonEgpsEntry)}}

InitJson ==
    /\ site = [s \in Sources |-> EmptySite]
    /\ emailConfigured = FALSE
    /\ histFile = NoFile
    /\ histAtStart = histFile
    /\ run = 1
    /\ faults = JsonFaults
    /\ saved \in JsonHistories
    /\ histText = <<>> /\ loaded = JsonSkeleton /\ jpc = "save"
    /\ RunStart

jsonFrame == <<site, emailConfigured, histFile, histAtStart, run, pc, abortedAt,
               refetch, dataVars, diffVars, crawlVars, navVars>>

\* save_tender_history (lines 101-106) on the characters of the file: written
\* in full, or open() raises and there is no file, or json.dump raises with a
\* part of the text written
SaveHistoryText ==
    /\ jpc = "save"
    /\ \/ /\ NoFault
          /\ histText' = json_dump(saved)
       \/ /\ Fault("open_fails")
          /\ UNCHANGED histText
       \/ /\ Fault("dump_fails")
          /\ \E n \in {0, Len(json_dump(saved)) \div 2} :
                histText' = SubSeq(json_dump(saved), 1, n)
    /\ jpc' = "load"
    /\ UNCHANGED <<saved, loaded, jsonFrame>>

\* load_tender_history (lines 91-99) on the characters of the file
LoadHistoryText ==
    /\ jpc = "load"
    /\ \/ /\ NoFault
          /\ loaded' = IF json_load(histText).ok
                       THEN json_load(histText).val ELSE JsonSkeleton
       \/ /\ histText # <<>>
          /\ Fault("read_fails")
          /\ loaded' = JsonSkeleton
    /\ jpc' = "done"
    /\ UNCHANGED <<saved, histText, jsonFrame>>

NextJson == SaveHistoryText \/ LoadHistoryText

SpecJson == InitJson /\ [][NextJson]_vars

----------------------------------------------------------------------------
(* Properties.                                                             *)
Data(s) == IF s = "ECIL" THEN ecil_data ELSE egps_data
Changes(s) == IF s = "ECIL" THEN ecil_changes ELSE egps_changes

\* the six lists and all_tenders of this run are built
Categorized == pc \in {"build", "report", "update", "email", "done"}

\* the statuses under which entry e of source s stands in the merged dataset
StatusesOf(s, e) ==
    {all_tenders[i].status :
        i \in {j \in DOMAIN all_tenders :
                  all_tenders[j].source = s /\ all_tenders[j].entry = e}}

Present(s, e) == e.tender_no \in DOMAIN history[s]
RecordedDate(s, e) == history[s][e.tender_no].closing_date

\* the listing pages a crawl of s gets through when nothing fails
PagesReached(s) ==
    IF DetectPages(s, site[s]) <= Len(site[s].pages)
    THEN DetectPages(s, site[s]) ELSE Len(site[s].pages)

\* the entries of the accepted rows of pages 1..n, in listing order
EntriesThrough(s, n) ==
    Flatten([p \in 1..n |-> AcceptedEntries(s, RowsOf(site[s], p))])

\* C1: a record whose tender_no is absent from history[source], as loaded for
\* the run, is NEW and nothing else, whatever its closing date and whatever
\* the other source's history holds.
C1_AbsentIsNew ==
    Categorized =>
        \A s \in Sources : \A i \in DOMAIN Data(s) :
            ~Present(s, Data(s)[i]) => StatusesOf(s, Data(s)[i]) = {"NEW"}

\* C1's case: a record absent from its own source's history while the other
\* source's history holds the same tender number with another closing date.
C1_Witness ==
    /\ Categorized
    /\ \E s \in Sources : \E i \in DOMAIN Data(s) :
          /\ ~Present(s, Data(s)[i])
          /\ Data(s)[i].closing_date # ""
          /\ Data(s)[i].tender_no \in DOMAIN history[Other(s)]
          /\ history[Other(s)][Data(s)[i].tender_no].closing_date # Data(s)[i].closing_date

\* C2: a record present in history[source] with a non-empty recorded closing
\* date that differs from its own non-empty closing date is DATE CHANGED, and
\* a change entry carries the recorded date as old_date and the record's date
\* as new_date.
C2_DifferingDateIsChanged ==
    Categorized =>
        \A s \in Sources : \A i \in DOMAIN Data(s) :
            LET e == Data(s)[i]
            IN  (/\ Present(s, e)
                 /\ RecordedDate(s, e) # "" /\ e.closing_date # ""
                 /\ RecordedDate(s, e) # e.closing_date)
                =>
                (/\ StatusesOf(s, e) = {"DATE CHANGED"}
                 /\ \E k \in DOMAIN Changes(s) :
                       /\ Changes(s)[k].tender_no = e.tender_no
                       /\ Changes(s)[k].source = s
                       /\ Changes(s)[k].old_date = RecordedDate(s, e)
                       /\ Changes(s)[k].new_date = e.closing_date)

\* C2's case (scenario A): T1 recorded with 10-01-2026, seen with 15-01-2026.
C2_Witness ==
    /\ Categorized
    /\ \E i \in DOMAIN ecil_data :
          /\ ecil_data[i].tender_no = T1
          /\ ecil_data[i].closing_date = "15-01-2026"
          /\ Present("ECIL", ecil_data[i])
          /\ RecordedDate("ECIL", ecil_data[i]) = "10-01-2026"

\* C3: a record present in history[source] whose own closing date equals the
\* recorded one, or with either of the two empty, is EXISTING and nothing
\* else, also when another record of the source has the same tender_no.
C3_EqualOrEmptyIsExisting ==
    Categorized =>
        \A s \in Sources : \A i \in DOMAIN Data(s) :
            LET e == Data(s)[i]
            IN  (/\ Present(s, e)
                 /\ (RecordedDate(s, e) = e.closing_date
                     \/ RecordedDate(s, e) = "" \/ e.closing_date = ""))
                => StatusesOf(s, e) = {"EXISTING"}

\* C4: update_tender_history is called only once the lists, the rows and the
\* report are there; a run that an exception of lines 703-950 ends has made
\* no call of it and leaves the history file as it found it.
C4_NoHistoryWriteBeforeReport ==
    /\ updateCalls > 0 => (reportWritten /\ pc \in {"email", "done", "aborted"})
    /\ pc \notin {"email", "done", "aborted"} => histFile = histAtStart
    /\ (pc = "aborted" /\ abortedAt # "email") =>
            (updateCalls = 0 /\ histFile = histAtStart)

\* C4's case: the report stage raised in a run that saw a tender the file
\* does not hold.
C4_Witness ==
    /\ pc = "aborted" /\ abortedAt = "report"
    /\ \E i \in DOMAIN ecil_data : ecil_data[i].tender_no \notin Recorded(histFile, "ECIL")

\* C5: no step of any run takes an identifier out of the persisted history of
\* a source.
C5_HistoryNeverShrinks ==
    [][\A s \in Sources : Recorded(histFile, s) \subseteq Recorded(histFile', s)]_vars

\* C6: at most one window other than the listing window is open.
C6_AtMostOneSecondary == extra <= 1

\* C7: when the next row or the next link of a row is taken up, no secondary
\* window is open and the driver is on the listing window.
C7_ListingRestored ==
    (pc \in {"scrape_ecil", "scrape_egps"} /\ cpc \in {"rows", "open"})
        => (extra = 0 /\ active = "main")

\* the faults of a harvest that C8 speaks of: the secondary window is not
\* opened or not reached
OpenFailures == {"open_raises", "not_opened", "switch_raises"}

C9_SourceFailureContained ==
    /\ \A s \in Sources :
          outcome[s] = "failed" => (Data(s) = <<>> /\ driver[s] # "alive")
    /\ abortedAt \notin {"scrape_ecil", "scrape_egps"}
    /\ \A s \in Sources :
          (outcome[s] = "failed" /\ outcome[Other(s)] = "returned")
              => Data(Other(s)) = EntriesThrough(Other(s), PagesReached(Other(s)))
    /\ Categorized =>
          \A s \in Sources : \A i \in DOMAIN Data(s) : StatusesOf(s, Data(s)[i]) # {}
    /\ (pc \in {"email", "done"}
        /\ faultKinds \cap {"read_fails", "open_fails", "dump_fails"} = {})
          => \A s \in Sources : \A i \in DOMAIN Data(s) :
                 Data(s)[i].tender_no \in Recorded(histFile, s)

\* C9's case: the ECIL crawl raised, and the run ended with the EGPS tender
\* newly in the history file.
C9_Witness ==
    /\ pc = "done"
    /\ outcome["ECIL"] = "failed" /\ outcome["EGPS"] = "returned"
    /\ egps_data # <<>>
    /\ T1 \in Recorded(histFile, "EGPS") /\ T1 \notin Recorded(histAtStart, "EGPS")
    /\ StatusesOf("EGPS", egps_data[1]) = {"NEW"}

\* C10: a crawl that ends without raising, the break at a missing next-page
\* link included, returns exactly the entries of the pages it got through, in
\* listing order (as long as no failed cleanup has left the driver off the
\* listing window, where rows cannot be read); when nothing fails these are
\* the pages up to the first missing next-page link.
C10_PartialPagesReturned ==
    \A s \in Sources :
        outcome[s] = "returned" =>
            /\ "cleanup_switch_fails" \notin faultKinds =>
                  TenderNos(Data(s)) = TenderNos(EntriesThrough(s, lastPage[s]))
            /\ faultKinds = {} =>
                  lastPage[s] = (IF PagesReached(s) = 0 THEN 1 ELSE PagesReached(s))

\* C10's case: M pages announced, the link to page N+1 missing after page N,
\* N < M, and the rows of pages 1..N returned.
C10_Witness ==
    \E s \in Sources :
        /\ outcome[s] = "returned"
        /\ Len(site[s].pages) >= 1
        /\ Len(site[s].pages) < DetectPages(s, site[s])
        /\ lastPage[s] = Len(site[s].pages)
        /\ faultKinds = {}
        /\ Data(s) # <<>>
        /\ Len(Data(s)) = Len(EntriesThrough(s, lastPage[s]))

\* the place of a status, and of a source, in the order of the merged dataset
StatusRank(st) == CHOOSE k \in DOMAIN Statuses : Statuses[k] = st
SourceRank(s) == IF s = "ECIL" THEN 1 ELSE 2

\* the entries the merged dataset holds under status st for source s, in order
GroupOf(st, s) ==
    LET InGroup(t) == t.status = st /\ t.source = s
        g == SelectSeq(all_tenders, InGroup)
    IN  [i \in DOMAIN g |-> g[i].entry]

\* the records of source s that stand in the group, in crawl order
CrawlOrderOf(st, s) ==
    LET InGroup(e) == e \in Range(GroupOf(st, s))
    IN  SelectSeq(Data(s), InGroup)

\* C11: in the merged dataset every NEW record comes before every DATE CHANGED
\* record and these before every EXISTING record; within a status the ECIL
\* records come before the EGPS records; within a status and a source the
\* records stand in crawl order; and no record is lost or added.
C11_MergedOrder ==
    Categorized =>
        /\ \A i, j \in DOMAIN all_tenders :
              i < j =>
                 /\ StatusRank(all_tenders[i].status) <= StatusRank(all_tenders[j].status)
                 /\ all_tenders[i].status = all_tenders[j].status =>
                        SourceRank(all_tenders[i].source) <= SourceRank(all_tenders[j].source)
        /\ \A st \in Range(Statuses) : \A s \in Sources :
              GroupOf(st, s) = CrawlOrderOf(st, s)
        /\ Len(all_tenders) = Len(ecil_data) + Len(egps_data)

\* C11's case: the second ECIL record is NEW and stands first, the EGPS record
\* follows it, and the first ECIL record, of a later status, stands last.
C11_Witness ==
    /\ Categorized
    /\ Len(ecil_data) = 2 /\ Len(all_tenders) = 3
    /\ all_tenders[1].entry = ecil_data[2] /\ all_tenders[1].status = "NEW"
    /\ all_tenders[2].source = "EGPS"
    /\ all_tenders[3].entry = ecil_data[1] /\ all_tenders[3].source = "ECIL"
    /\ ecil_data[1] # ecil_data[2]

\* C12: no two records a crawl returns for a source have the same tender_no.
C12_UniqueTenderNo ==
    \A s \in Sources : \A i, j \in DOMAIN Data(s) :
        i # j => Data(s)[i].tender_no # Data(s)[j].tender_no

\* no two entries of a documents list have the same URL
NoDupUrls(docs) == \A i, j \in DOMAIN docs : i # j => docs[i][2] # docs[j][2]

\* C13: no documents list holds a URL twice: not the result of a harvest
\* call, not the list of the record being built after the listing document
\* and each page's documents are merged in, not the list of a record
\* collected or returned.
C13_NoDuplicateUrls ==
    /\ NoDupUrls(harvested.docs)
    /\ NoDupUrls(cur.doc_links)
    /\ \A i \in DOMAIN data : NoDupUrls(data[i].doc_links)
    /\ \A s \in Sources : \A i \in DOMAIN Data(s) : NoDupUrls(Data(s)[i].doc_links)

\* C13's case: a view page that links one URL twice and links the URL of the
\* listing document as well, merged into the record's list.
C13_Witness ==
    /\ pc = "scrape_egps" /\ cpc = "close"
    /\ harvested.kind = "View"
    /\ \E i, j \in DOMAIN harvested.page.links :
          i # j /\ harvested.page.links[i].href = harvested.page.links[j].href
    /\ cur.doc_links[1] = <<"Tender Document", PdfUrl>>
    /\ PdfUrl \in Urls(harvested.docs)
    /\ Len(cur.doc_links) = 2 /\ Len(harvested.docs) = 2

\* the URL and the name a page's link stands for (lines 167-170 on a detail
\* page, lines 268-302 on a view or corrigendum page), and whether the link
\* is taken for a document at all (lines 171, 280-282)
LinkUrl(kind, l) == IF kind = "Detail" THEN l.href ELSE EgpsUrl(l)
LinkName(kind, l) ==
    IF kind = "Detail"
    THEN (IF l.text = "" \/ l.text \in {"--NA--", "Download", "View"}
          THEN UrlFileName(l.href) ELSE l.text)
    ELSE Labelled(EgpsName(l, EgpsUrl(l)), kind)
IsDocumentLink(kind, l) ==
    /\ ~l.raises /\ LinkUrl(kind, l) # ""
    /\ IF kind = "Detail" THEN LinkName(kind, l) # "--NA--"
       ELSE IsDocumentUrl(LinkUrl(kind, l))

\* the first link of page p that stands for url
FirstAt(kind, p, url) ==
    CHOOSE i \in DOMAIN p.links :
        /\ IsDocumentLink(kind, p.links[i]) /\ LinkUrl(kind, p.links[i]) = url
        /\ \A j \in 1..(i - 1) :
              ~(IsDocumentLink(kind, p.links[j]) /\ LinkUrl(kind, p.links[j]) = url)

\* the result h of a harvest call holds one entry for every URL the page
\* links, named as the first link to it, in the order of these first links
FirstEncounters(h) ==
    (h.kind # "none" /\ h.page.ready /\ ~h.page.broken) =>
        /\ Urls(h.docs) =
              {LinkUrl(h.kind, h.page.links[i]) :
                  i \in {j \in DOMAIN h.page.links : IsDocumentLink(h.kind, h.page.links[j])}}
        /\ Len(h.docs) = Cardinality(Urls(h.docs))
        /\ \A k \in DOMAIN h.docs :
              h.docs[k][1] =
                  LinkName(h.kind, h.page.links[FirstAt(h.kind, h.page, h.docs[k][2])])
        /\ \A k, n \in DOMAIN h.docs :
              k < n => FirstAt(h.kind, h.page, h.docs[k][2]) < FirstAt(h.kind, h.page, h.docs[n][2])

\* the entries of docs whose URL the list before does not hold
NotYetIn(before, docs) ==
    LET IsNew(d) == d[2] \notin Urls(before)
    IN  SelectSeq(docs, IsNew)

\* C14: a harvest call keeps one entry per URL, with the name of the first
\* link to it and in the order of first encounter; merging the result of a
\* view or corrigendum page into the record's list leaves the entries the
\* list has (the listing document, the documents of the page before) as they
\* are and appends, in order, only the entries whose URL is not there yet.
C14_FirstEncounterKept ==
    [][(cpc = "extract" /\ cpc' = "close") =>
          /\ FirstEncounters(harvested')
          /\ cur'.doc_links =
                IF harvested'.kind = "Detail" THEN harvested'.docs
                ELSE cur.doc_links \o NotYetIn(cur.doc_links, harvested'.docs)]_vars

\* C14's case (scenario C): the corrigendum page links U1 twice, as "Spec"
\* and as "Drawing", and links the listing document; the record keeps the
\* listing document under its first name and U1 under the view page's name.
C14_Witness ==
    /\ pc = "scrape_egps" /\ cpc = "close"
    /\ harvested.kind = "Corrigendum" /\ harvested.page = PageDocs
    /\ harvested.docs = <<<<"Corrigendum - Spec", U1>>, <<"Corrigendum - b", U2>>>>
    /\ cur.doc_links = <<<<"Tender Document", U2>>, <<"View - Spec", U1>>>>

\* how often the run has read, and written, the history file
HistReads  == Cardinality({i \in DOMAIN histOps : histOps[i] = "read"})
HistWrites == Cardinality({i \in DOMAIN histOps : histOps[i] = "write"})

\* C15: a run reads the history file once, before it classifies, and writes
\* it at most once, after the merged dataset is there; it makes no other
\* read or write.
C15_ReadOnceWriteAtMostOnce ==
    /\ HistReads <= 1 /\ HistWrites <= 1
    /\ pc \in {"changes", "categorize", "build", "report", "update", "email", "done"}
          => (HistReads = 1 /\ histOps[1] = "read")
    /\ pc \in {"scrape_ecil", "scrape_egps", "combine", "load"} => histOps = <<>>
    /\ HistWrites = 1 => (reportWritten /\ pc \in {"email", "done", "aborted"})

\* C16: load_tender_history does not raise: the run is never ended by the
\* load of line 715, and the map the run works with is the stored one when
\* the file is there and is read, and the empty two-source skeleton when the
\* file is absent, cannot be parsed or cannot be read.
C16_LoadNeverRaises ==
    /\ abortedAt # "load"
    /\ pc \in {"changes", "categorize", "build", "report", "update"} =>
          history = IF histFile.state = "ok" /\ "read_fails" \notin faultKinds
                    THEN histFile.map ELSE EmptyHistory

\* C16's case: a later run loads a file that an earlier run left unparseable.
C16_Witness ==
    /\ pc = "changes" /\ run > 1
    /\ histFile.state = "corrupt"
    /\ history = EmptyHistory
    /\ ecil_data # <<>>

\* C17: when the file is written and read without a disk fault, what
\* load_tender_history returns after save_tender_history(h) is h, for every
\* two-source map h of tender identifiers to entries of string fields.
C17_HistoryRoundTrip ==
    (jpc = "done" /\ faultKinds = {}) => loaded = saved

\* C17's case: a map whose tender identifier is a backslash followed by a
\* quote and whose description holds a non-ASCII character, saved and loaded.
C17_Witness ==
    /\ jpc = "done" /\ faultKinds = {}
    /\ loaded = saved
    /\ <<BACKSLASH, QUOTE>> \in DOMAIN saved.v[K_ECIL].v
    /\ saved.v[K_ECIL].v[<<BACKSLASH, QUOTE>>].v[K_description].v = <<EACUTE, "u">>
    /\ DOMAIN saved.v[K_EGPS].v # {}

\* a record whose identifier or description the row-validity filter rejects
InvalidRecord(e) ==
    \/ IsMarkerRow(e.tender_no)
    \/ Len(e.tender_no) < MinTenderNoLen
    \/ Len(e.description) < MinDescLen

\* C18: no record collected or returned by the pager of either source has an
\* identifier that is empty, a header or section marker, a number of at most
\* two digits or shorter than the minimum, or a description shorter than the
\* minimum.
C18_InvalidRowsNotEmitted ==
    /\ \A i \in DOMAIN data : ~InvalidRecord(data[i])
    /\ \A s \in Sources : \A i \in DOMAIN Data(s) : ~InvalidRecord(Data(s)[i])

\* the largest number of documents over the records of both sources
MostDocs ==
    LET counts == {Len(ecil_data[i].doc_links) : i \in DOMAIN ecil_data}
                  \cup {Len(egps_data[i].doc_links) : i \in DOMAIN egps_data}
    IN  IF counts = {} THEN 0 ELSE CHOOSE m \in counts : \A c \in counts : c <= m

\* C19: once the rows are built there is one row per record of the merged
\* dataset, every row and the column manifest have 9 + 2 * maxDocs cells,
\* and the document cells of a row hold the names and URLs of the record's
\* documents in order, followed by empty cells.
C19_UniformRows ==
    pc \in {"report", "update", "email", "done"} =>
        /\ Len(columns) = 9 + 2 * MostDocs
        /\ SubSeq(columns, 1, 9) = BaseColumns
        /\ Len(rows) = Len(all_tenders)
        /\ \A i \in DOMAIN rows :
              LET docs == all_tenders[i].entry.doc_links
              IN  /\ Len(rows[i]) = 9 + 2 * MostDocs
                  /\ \A k \in 1..MostDocs :
                        IF k <= Len(docs)
                        THEN /\ rows[i][9 + 2 * k - 1] = docs[k][1]
                             /\ rows[i][9 + 2 * k] = docs[k][2]
                        ELSE /\ rows[i][9 + 2 * k - 1] = ""
                             /\ rows[i][9 + 2 * k] = ""

\* C19's case: one record with a document and one without, in rows of 11
\* cells.
C19_Witness ==
    /\ pc = "report" /\ MostDocs = 1
    /\ \E i, j \in DOMAIN rows :
          /\ all_tenders[i].entry.doc_links = <<>>
          /\ Len(all_tenders[j].entry.doc_links) = 1
          /\ Len(rows[i]) = 11 /\ rows[i][10] = "" /\ rows[j][10] = "Tender Document"

\* C20: at most one browser session is alive; the ECIL session is over when
\* scrape_ecil has returned, however it returned, and the EGPS session is
\* created only then; a row is read only when no harvest of the row before
\* is outstanding, and while a row's pages are harvested the row loop stays
\* on that row.
C20_OneSessionOneHarvest ==
    /\ Cardinality({s \in Sources : driver[s] = "alive"}) <= 1
    /\ pc # "scrape_ecil" => (driver["ECIL"] # "alive" /\ outcome["ECIL"] # "pending")
    /\ driver["EGPS"] # "none" => (pc # "scrape_ecil" /\ driver["ECIL"] # "alive")
    /\ cpc \in {"idle", "rows"} => (pending = <<>> /\ cur = NoEntry)
    /\ cpc \in {"open", "extract", "close", "cleanup"} =>
          /\ pending # <<>>
          /\ \E s \in Sources :
                /\ pc = Stage(s) /\ driver[s] = "alive"
                /\ row_index \in DOMAIN CurRows(s)
                /\ cur.tender_no = CurRows(s)[row_index].tender_no

C20_Witness ==
    /\ pc = "scrape_egps" /\ cpc = "close"
    /\ driver["ECIL"] = "quit" /\ driver["EGPS"] = "alive"
    /\ outcome["ECIL"] = "failed"

\* C21: a stale row reference, wherever in the processing of a row it shows,
\* makes the pager of either source re-fetch the row set and go on from the
\* same row index: the crawl is still under way and the collected records
\* are all there.
StaleStep == (faultKinds' \ faultKinds) \cap StaleKinds # {} \/ refetch' # refetch

C21_StaleRowResumes ==
    [][StaleStep =>
          /\ refetch'.rows_id # refetch.rows_id
          /\ pc' = pc /\ cpc' = "rows"
          /\ page' = page /\ row_index' = row_index
          /\ data' = data /\ outcome' = outcome]_vars

\* C22: a stale row is read again once and no more, and the row loop of a
\* listing page comes to its end whatever the re-reads meet: from every row
\* of a page the pager gets to the next page or to the end of the crawl.
InRowLoop(s, p) == pc = Stage(s) /\ page = p /\ cpc # "idle"

C22_StaleRetryTerminates ==
    /\ [](refetch.reads <= 1)
    /\ \A s \in Sources : \A p \in 1..(NavPages + 1) :
          InRowLoop(s, p) ~> ~InRowLoop(s, p)

\* C23: per source, the records classified DATE CHANGED and the change
\* entries are as many, and the k-th such record is paired with the k-th
\* change entry: same tender_no, and new_date the record's own closing date.
ChangedOf(s) == categorized[s]["DATE CHANGED"]

C23_ChangedPairedWithChange ==
    Categorized =>
        \A s \in Sources :
            /\ Len(ChangedOf(s)) = Len(Changes(s))
            /\ \A k \in DOMAIN ChangedOf(s) \cap DOMAIN Changes(s) :
                  /\ Changes(s)[k].tender_no = ChangedOf(s)[k].entry.tender_no
                  /\ Changes(s)[k].new_date = ChangedOf(s)[k].entry.closing_date

\* C24: a call of update_tender_history that writes the file leaves, for each
\* tender the run saw, exactly the snapshot of the run's record of it (the
\* last one with that tender_no): description, closing_date, last_seen of
\* this run, and centre for EGPS, and no field of the entry that was there.
LastWith(d, t) ==
    d[CHOOSE i \in DOMAIN d :
          /\ d[i].tender_no = t
          /\ \A j \in DOMAIN d : d[j].tender_no = t => j <= i]

HistoryWritten ==
    /\ pc = "update" /\ pc' = "email"
    /\ faultKinds' \cap {"open_fails", "dump_fails"} = {}

C24_EntryOverwrittenWhole ==
    [][HistoryWritten =>
          /\ histFile'.state = "ok"
          /\ \A s \in Sources : \A t \in Range(TenderNos(Data(s))) :
                /\ t \in DOMAIN histFile'.map[s]
                /\ histFile'.map[s][t] = Snapshot(s, LastWith(Data(s), t), run)
                /\ DOMAIN histFile'.map[s][t] =
                      {"description", "closing_date", "last_seen"}
                      \cup (IF s = "EGPS" THEN {"centre"} ELSE {})]_vars

\* the update has replaced an entry that had a field and a date of its own
C24_Witness ==
    /\ pc = "email"
    /\ histAtStart.state = "ok"
    /\ T1 \in DOMAIN histAtStart.map["ECIL"]
    /\ "link" \in DOMAIN histAtStart.map["ECIL"][T1]
    /\ histFile.state = "ok"
    /\ T1 \in DOMAIN histFile.map["ECIL"]
    /\ histFile.map["ECIL"][T1] =
          [description |-> "Valves", closing_date |-> "15-01-2026", last_seen |-> 1]

\* C25: update_tender_history has been called before the notifier is reached;
\* without destination configuration the notifier does nothing and the run
\* ends normally; and once the report is there the history file holds every
\* record of the run, stamped by this run, whether the notifier is
\* configured or not and whether the notification is sent, fails to be sent
\* or fails to be built (the disk taking the write).
DiskTakesWrite == faultKinds \cap {"open_fails", "dump_fails"} = {}

WrittenThisRun ==
    /\ histFile.state = "ok"
    /\ \A s \in Sources : \A i \in DOMAIN Data(s) :
          /\ Data(s)[i].tender_no \in DOMAIN histFile.map[s]
          /\ histFile.map[s][Data(s)[i].tender_no].last_seen = run

C25_HistoryBeforeNotification ==
    /\ (email # "none" \/ abortedAt = "email" \/ pc \in {"email", "done"}) =>
          (updateCalls = 1 /\ reportWritten)
    /\ (~emailConfigured /\ updateCalls = 1 /\ pc # "email") =>
          (pc = "done" /\ email = "skipped")
    /\ (reportWritten /\ pc # "update") =>
          /\ updateCalls = 1
          /\ DiskTakesWrite => WrittenThisRun

\* the attachment could not be read: the run ends in the top-level except
\* with the history of the run on disk
C25_Witness ==
    /\ pc = "aborted" /\ abortedAt = "email"
    /\ ecil_data # <<>>
    /\ histFile # histAtStart
    /\ WrittenThisRun

\* C26: in every record a crawl hands back, centre, published date, opening
\* date and detail link are never the empty string: where the field is
\* absent or was not found the record holds the placeholder.
C26_NoEmptyOptionalField ==
    \A s \in Sources : \A i \in DOMAIN Data(s) :
        /\ Data(s)[i].centre # ""
        /\ Data(s)[i].published_date # ""
        /\ Data(s)[i].opening_date # ""
        /\ Data(s)[i].link # ""

\* C27: the merged dataset is the two crawls' records and nothing else: as
\* many rows as len(ecil_data) + len(egps_data); each row is a crawled record
\* of its source tag under one of the three statuses; and each crawled
\* record stands in the six lists exactly as often as the crawl returned it,
\* all under one status.
Occurrences(sq, x) == Cardinality({i \in DOMAIN sq : sq[i] = x})

MergedOf(s) == SelectSeq(all_tenders, LAMBDA t : t.source = s)

C27_ClassificationPartitions ==
    Categorized =>
        /\ Len(all_tenders) = Len(ecil_data) + Len(egps_data)
        /\ \A i \in DOMAIN all_tenders :
              /\ all_tenders[i].source \in Sources
              /\ all_tenders[i].status \in Range(Statuses)
              /\ all_tenders[i].entry \in Range(Data(all_tenders[i].source))
        /\ \A s \in Sources : \A i \in DOMAIN Data(s) :
              /\ Cardinality(StatusesOf(s, Data(s)[i])) = 1
              /\ Occurrences([k \in DOMAIN MergedOf(s) |-> MergedOf(s)[k].entry],
                             Data(s)[i])
                    = Occurrences(Data(s), Data(s)[i])

C27_Witness ==
    /\ Categorized
    /\ Len(ecil_data) = 2 /\ Len(egps_data) = 1
    /\ ecil_data[1].tender_no # ecil_data[2].tender_no
    /\ Cardinality({all_tenders[i].status : i \in DOMAIN all_tenders}) >= 2

\* C28: a run that follows at once on a run which ended with the history
\* updated, and which sees the records that run saw, classifies every record
\* EXISTING, and its own update leaves every entry as it was but for
\* last_seen.  In these runs the sites do not change, so the run before saw
\* these records whenever it stamped their entries.
WithoutSeen(e) == [k \in DOMAIN e \ {"last_seen"} |-> e[k]]

SameAsRunBefore ==
    /\ run > 1
    /\ "read_fails" \notin faultKinds
    /\ histAtStart.state = "ok"
    /\ \A s \in Sources :
          /\ \A i \in DOMAIN Data(s) :
                /\ Data(s)[i].tender_no \in DOMAIN histAtStart.map[s]
                /\ histAtStart.map[s][Data(s)[i].tender_no].last_seen = run - 1
          /\ \A t \in DOMAIN histAtStart.map[s] :
                \E i \in DOMAIN Data(s) : Data(s)[i].tender_no = t

C28_SecondRunAllExisting ==
    /\ (Categorized /\ SameAsRunBefore) =>
          \A i \in DOMAIN all_tenders : all_tenders[i].status = "EXISTING"
    /\ (pc \in {"email", "done"} /\ SameAsRunBefore /\ DiskTakesWrite) =>
          /\ histFile.state = "ok"
          /\ \A s \in Sources :
                /\ DOMAIN histFile.map[s] = DOMAIN histAtStart.map[s]
                /\ \A t \in DOMAIN histAtStart.map[s] :
                      WithoutSeen(histFile.map[s][t]) = WithoutSeen(histAtStart.map[s][t])

\* C29: the call of update_tender_history leaves every entry of the file
\* whose tender the run did not see as it was; the whole map of a source
\* whose crawl handed back the empty list is the same before and after.
MapOf(file, s) ==
    IF file.state = "ok" /\ s \in DOMAIN file.map THEN file.map[s] ELSE <<>>

C29_UnseenEntriesUntouched ==
    [][(pc = "update" /\ pc' # "update") =>
          \A s \in Sources :
              /\ \A t \in DOMAIN MapOf(histFile, s) \ Range(TenderNos(Data(s))) :
                    /\ t \in DOMAIN MapOf(histFile', s)
                    /\ MapOf(histFile', s)[t] = MapOf(histFile, s)[t]
              /\ Data(s) = <<>> => MapOf(histFile', s) = MapOf(histFile, s)]_vars

\* C30: whatever the history file holds, the map load_tender_history hands
\* back has the keys of both sources, so no lookup history[source] of the
\* run fails: no run ends in the top-level except at the date comparison or
\* inside update_tender_history.
HistoryLoaded == pc \in {"changes", "categorize", "build", "report", "update", "email", "done"}

C30_BothSourceKeys ==
    /\ HistoryLoaded => Sources \subseteq DOMAIN history
    /\ pc = "aborted" =>
          (abortedAt \in {"changes", "update"} => "stage_raises" \in faultKinds)

====
